---- MODULE Spec2Model ----
(***************************************************************************)
(* Model of the chat server of src/server.py (class ChatServer).           *)
(*                                                                         *)
(* Threads: the main thread (ChatServer.start: the accept loop, then       *)
(* shutdown) and one session thread per accepted connection                *)
(* (ChatServer.handle_client).  A session thread and the connection it     *)
(* serves carry the same number.  Every blocking point of the code (a      *)
(* recv, an acquire of clients_lock) starts a new step; the code between   *)
(* two blocking points is one step.                                        *)
(*                                                                         *)
(* Text is a sequence of symbols: a symbol is one character (" ", "X") or  *)
(* a run of characters the code never looks into ("/private", "hi").       *)
(***************************************************************************)
EXTENDS Integers, Sequences, FiniteSets, Bags, TLC

\* ------------------------------------------------------------------ bounds

\* Connections that reach the listening socket, numbered in accept order.
NConn == 3
\* Lines the sessions read in their message loops, all sessions together.
MaxLines == 1
\* Peers that go away.
MaxGone == 1
\* Capacity. The source sets 100 (src/server.py:35); the model keeps the
\* comparison of line 329 and scales the number down to below NConn.
MAX_CLIENTS == 2

Conns == 1..NConn
\* Python's None, for a text that is not set.
None == << "None" >>
\* The main thread, and "no thread" (clients_lock free).
Main == 0
NoThread == -1

\* ------------------------------------------------------------------ text

\* What the first recv of connection c can return (before .strip()). The
\* handles are named in the order they first show up: connection c asks
\* for one of the first c of them, so for a new one or for one asked for
\* before. The last connection may also pad its handle or send none.
Handles == << "A", "B", "C" >>
RawNames(c) ==
  { << Handles[i] >> : i \in 1..(IF c < Len(Handles) THEN c ELSE Len(Handles)) }
    \cup (IF c = NConn THEN { <<" ", "A">>, <<" ">>, <<>> } ELSE {})

\* What a recv of the message loop can return (before .strip()).
RawLines ==
  { <<"hi">>,
    <<"/users">>,
    <<"/help", " ">>,
    <<"/private", " ", "B">>,
    <<"/private", " ", "B", " ", "m", " ", "n">>,
    <<"/private", " ", "G", " ", "m">>,
    <<"/private", "X", " ", "A", " ", "m">> }

\* A strip that removes nothing (to try C20 against).
StripNot(s) == s

\* str.strip(): leading and trailing whitespace removed.
RECURSIVE LStrip(_)
LStrip(s) == IF s # <<>> /\ Head(s) = " " THEN LStrip(Tail(s)) ELSE s

RECURSIVE RStrip(_)
RStrip(s) ==
  IF s # <<>> /\ s[Len(s)] = " " THEN RStrip(SubSeq(s, 1, Len(s) - 1)) ELSE s

Strip(s) == RStrip(LStrip(s))

\* str.startswith(prefix)
StartsWith(s, prefix) ==
  Len(s) >= Len(prefix) /\ SubSeq(s, 1, Len(prefix)) = prefix

\* Position of the first sep in s at or after i, 0 when there is none.
RECURSIVE Find(_, _, _)
Find(s, sep, i) ==
  IF i > Len(s) THEN 0 ELSE IF s[i] = sep THEN i ELSE Find(s, sep, i + 1)

\* str.split(sep, maxsplit): at most maxsplit cuts, from the left; two
\* separators in a row give an empty part.
RECURSIVE Split(_, _, _)
Split(s, sep, maxsplit) ==
  LET i == Find(s, sep, 1) IN
  IF maxsplit = 0 \/ i = 0 THEN << s >>
  ELSE << SubSeq(s, 1, i - 1) >>
         \o Split(SubSeq(s, i + 1, Len(s)), sep, maxsplit - 1)

\* sep.join(parts)
RECURSIVE Join(_, _)
Join(sep, parts) ==
  IF parts = <<>> THEN <<>>
  ELSE IF Len(parts) = 1 THEN parts[1]
  ELSE parts[1] \o sep \o Join(sep, Tail(parts))

\* The f-strings of the server.
ConnectionClosedMsg == << "[SERVER] Connection closed" >>
LeftMsg(username) == << "[SERVER] " >> \o username \o << " left the chat" >>
\* A join notice with the text of the leave notice (to try C19 against).
JoinedAsLeft(username) == << "[SERVER] " >> \o username \o << " left the chat" >>
JoinedMsg(username) == << "[SERVER] " >> \o username \o << " joined the chat" >>
WelcomeMsg(username) ==
  << "[SERVER] Welcome " >> \o username \o << "! You are connected." >>
PrivateMsg(sender, message) == << "[PRIVATE] " >> \o sender \o << ": " >> \o message
SentMsg(target) == << "[SENT] Private message to " >> \o target
\* A delivery error with the text of the confirmation (to try C17 against).
NotDeliveredAsSent(target) == << "[SENT] Private message to " >> \o target
NotDeliveredMsg(target) == << "[ERROR] Could not deliver message to " >> \o target
NotOnlineMsg(target) == << "[ERROR] User '" >> \o target \o << "' is not online" >>
TakenMsg == << "[ERROR] Username already taken. Please try another." >>
FullMsg == << "[ERROR] Server is full. Please try again later." >>
UsageMsg == << "[ERROR] Usage: /private <username> <message>" >>
CommandsMsg == << "--- Available Commands ---" >>
GroupMsg(username, message) == username \o << ": " >> \o message
UsersMsg(users) ==
  << "[SERVER] Online users (", ToString(Len(users)), "): " >>
    \o Join(<< ", " >>, users)
ShutdownMsg == << "[SERVER] Server is shutting down" >>
\* b'' of the idle probe
PingMsg == <<>>

\* ------------------------------------------------------------ the dict

\* self.clients: a dict keeps its keys in insertion order; an entry is
\* [name |-> username, sock |-> connection].
Keys(d) == [i \in 1..Len(d) |-> d[i].name]
Has(d, k) == \E i \in 1..Len(d) : d[i].name = k
Get(d, k) == d[CHOOSE i \in 1..Len(d) : d[i].name = k].sock
Put(d, k, v) ==
  IF Has(d, k)
  THEN [i \in 1..Len(d) |-> IF d[i].name = k THEN [name |-> k, sock |-> v] ELSE d[i]]
  ELSE Append(d, [name |-> k, sock |-> v])
Del(d, k) == SelectSeq(d, LAMBDA e : e.name # k)

\* ----------------------------------------------------------------- state

VARIABLES
  clients,             \* self.clients
  clients_lock,        \* the thread holding self.clients_lock, or NoThread
  active_connections,  \* self.active_connections
  connection_count,    \* self.connection_count
  max_concurrent,      \* self.max_concurrent
  mainpc,              \* where the main thread is: "accept", "shutdown", "stopped"
  accepted,            \* how many connections accept() has returned
  pc,                  \* where each session thread is
  ret,                 \* each session thread's stack of return points
  username,            \* handle_client's local username (None: not yet read)
  args,                \* the arguments of the call each thread is in
  disconnected,        \* broadcast's local list disconnected
  closed,              \* the sockets the server has called close() on
  alive,               \* the connections on which no call has found the peer gone
  inbox,               \* the texts written to each connection with success (a bag)
  refused,             \* the texts whose write to each connection raised (a bag)
  msg,                 \* handle_client's local msg: the last line read, stripped
  lines,               \* lines read so far in the message loops
  added,               \* what add_client returned to each session (line 185)
  removed              \* the connections whose entry has been deleted (line 97)

vars ==
  << clients, clients_lock, active_connections, connection_count,
     max_concurrent, mainpc, accepted, pc, ret, username, args,
     disconnected, closed, alive, inbox, refused, msg, lines, added,
     removed >>

NoArgs == [fn |-> "none"]

\* ---------------------------------------------------------------- sockets

\* The peers, as the calls of a step on the sockets T find them: each peer
\* that was there so far is still there or has gone (close, reset, network
\* loss), and a peer that has gone stays gone.
Gone == { s \in Conns : ~alive[s] }

Peers(T) ==
  \E D \in SUBSET { s \in T : alive[s] /\ ~closed[s] } :
    /\ Cardinality(Gone \cup D) <= MaxGone
    /\ alive' = [s \in Conns |-> alive[s] /\ s \notin D]

\* socket.send succeeds on a socket the server has not closed whose peer
\* is there, and raises otherwise.
SendOk(s) == alive'[s] /\ ~closed[s]

\* The sockets of the dict d.
Socks(d) == { d[i].sock : i \in 1..Len(d) }

\* One attempted write.
W(s, text) == [to |-> s, text |-> text, ok |-> SendOk(s)]

\* The inboxes after the attempted writes ws: a write that succeeds adds
\* its text to the connection's inbox (the zero-length probe adds nothing).
RECURSIVE Deliver(_, _)
Deliver(box, ws) ==
  IF ws = <<>> THEN box
  ELSE Deliver(
         IF Head(ws).ok /\ Head(ws).text # <<>>
         THEN [box EXCEPT ![Head(ws).to] = @ (+) SetToBag({Head(ws).text})]
         ELSE box,
         Tail(ws))

\* The writes that raised, after the attempted writes ws (the zero-length
\* probe is left out here too).
RECURSIVE Refuse(_, _)
Refuse(box, ws) ==
  IF ws = <<>> THEN box
  ELSE Refuse(
         IF ~Head(ws).ok /\ Head(ws).text # <<>>
         THEN [box EXCEPT ![Head(ws).to] = @ (+) SetToBag({Head(ws).text})]
         ELSE box,
         Tail(ws))

\* A step attempts the writes ws, in this order.
Writes(ws) ==
  /\ inbox' = Deliver(inbox, ws)
  /\ refused' = Refuse(refused, ws)

NoWrites == UNCHANGED << inbox, refused >>

\* socket.close() on each socket of the set S.
Close(S) == closed' = [s \in Conns |-> closed[s] \/ s \in S]

Init ==
  /\ clients = <<>>
  /\ clients_lock = NoThread
  /\ active_connections = 0
  /\ connection_count = 0
  /\ max_concurrent = 0
  /\ mainpc = "accept"
  /\ accepted = 0
  /\ pc = [c \in Conns |-> "new"]
  /\ ret = [c \in Conns |-> <<>>]
  /\ username = [c \in Conns |-> None]
  /\ args = [c \in Conns |-> NoArgs]
  /\ disconnected = [c \in Conns |-> <<>>]
  /\ closed = [c \in Conns |-> FALSE]
  /\ alive = [c \in Conns |-> TRUE]
  /\ inbox = [c \in Conns |-> EmptyBag]
  /\ refused = [c \in Conns |-> EmptyBag]
  /\ msg = [c \in Conns |-> None]
  /\ lines = 0
  /\ added = [c \in Conns |-> "none"]
  /\ removed = [c \in Conns |-> FALSE]

\* ---------------------------------------------------------- control flow

\* A thread that calls a function of the registry is at the function's
\* name until it has the lock: "add_client", "remove_client", "broadcast",
\* "private_message", "get_online_users".
Goto(c, p) ==
  /\ pc' = [pc EXCEPT ![c] = p]
  /\ UNCHANGED << ret, args >>

\* Thread c calls a.fn with the arguments a, to come back at returnTo.
Call(c, a, returnTo) ==
  /\ pc' = [pc EXCEPT ![c] = a.fn]
  /\ args' = [args EXCEPT ![c] = a]
  /\ ret' = [ret EXCEPT ![c] = << returnTo >> \o @]

Return(c) ==
  /\ pc' = [pc EXCEPT ![c] = Head(ret[c])]
  /\ ret' = [ret EXCEPT ![c] = Tail(@)]
  /\ args' = [args EXCEPT ![c] = NoArgs]

\* with self.clients_lock: a blocking acquire of a threading.Lock, which is
\* not reentrant: the thread that holds it waits like any other. A with
\* block that runs to its end without blocking is one step, which leaves
\* the lock free as it found it; a thread that blocks inside the block
\* keeps the lock.
CanAcquire(t) == clients_lock = NoThread

Hold(t) == clients_lock' = t
Release(t) == clients_lock' = NoThread

\* The session threads are daemon threads (line 340): they run as long as
\* the process does, which ends when the main thread returns from start.
Running == mainpc # "stopped"

\* Session thread c is at p, and runs.
At(c, p) == Running /\ pc[c] = p

\* handle_client's finally block for a session whose username is set:
\* remove_client(username, notify=True), then the thread ends.
Finally(c, name) ==
  Call(c, [fn |-> "remove_client", username |-> name, notify |-> TRUE], "done")

registry == << clients, active_connections, connection_count, max_concurrent >>

\* -------------------------------------------------- the main thread: start

\* start, line 329: the capacity check of the accept loop, on a read of
\* active_connections outside the lock.
AtCapacity == active_connections >= MAX_CLIENTS

\* accept() returns connection c while the server is at capacity (lines
\* 326-334): the reply, then close(); a send that raises leaves the try
\* block for the handler of line 350, past the close().
AcceptFull(c) ==
  /\ mainpc = "accept"
  /\ c = accepted + 1
  /\ AtCapacity
  /\ Peers({c})
  /\ accepted' = c
  /\ Writes(<< W(c, FullMsg) >>)
  /\ Close(IF SendOk(c) THEN {c} ELSE {})
  /\ pc' = [pc EXCEPT ![c] = "rejected"]
  /\ UNCHANGED << registry, clients_lock, mainpc, ret, username, args,
                  disconnected, msg, lines, added, removed >>

\* accept() returns connection c below capacity (lines 326-342): a thread
\* is started on handle_client.
AcceptSpawn(c) ==
  /\ mainpc = "accept"
  /\ c = accepted + 1
  /\ ~AtCapacity
  /\ accepted' = c
  /\ pc' = [pc EXCEPT ![c] = "recv_name"]
  /\ UNCHANGED << registry, clients_lock, mainpc, ret, username, args,
                  disconnected, closed, alive, inbox, refused, msg, lines, added, removed >>

\* KeyboardInterrupt in the accept loop (lines 346-348): break, and the
\* finally block calls shutdown, whose acquire (line 364) is the main
\* thread's next blocking point. This is the step that ends blocked there;
\* with the lock free the step goes on through shutdown, below.
Interrupt ==
  /\ mainpc = "accept"
  /\ ~CanAcquire(Main)
  /\ mainpc' = "shutdown"
  /\ UNCHANGED << registry, clients_lock, accepted, pc, ret, username, args,
                  disconnected, closed, alive, inbox, refused, msg, lines, added, removed >>

\* The sockets shutdown closes: in "send; close" under one try, a send that
\* raises skips the close.
ShutdownCloses == { clients[i].sock : i \in { j \in 1..Len(clients) : SendOk(clients[j].sock) } }

\* shutdown (lines 360-372), entered from the accept loop by a
\* KeyboardInterrupt: under the lock, the notice to each registered socket
\* and its close; then the listening socket is closed and start returns.
shutdown ==
  /\ mainpc \in {"accept", "shutdown"}
  /\ CanAcquire(Main)
  /\ Peers(Socks(clients))
  /\ Writes([i \in 1..Len(clients) |-> W(clients[i].sock, ShutdownMsg)])
  /\ Close(ShutdownCloses)
  /\ mainpc' = "stopped"
  /\ UNCHANGED << registry, clients_lock, accepted, pc, ret, username, args,
                  disconnected, msg, lines, added, removed >>

\* --------------------------------------- a session thread: handle_client

\* Step 1 (lines 179-182): the first read is the username. An empty one
\* raises ValueError; the finally block then finds username falsy and
\* closes the socket (lines 248-252).
RecvName(c) ==
  /\ At(c, "recv_name")
  /\ \E raw \in RawNames(c) :
       LET name == Strip(raw) IN
       /\ username' = [username EXCEPT ![c] = name]
       /\ IF name = <<>>
          THEN /\ Goto(c, "done")
               /\ Close({c})
          ELSE /\ Call(c, [fn |-> "add_client", username |-> name, sock |-> c],
                       "added")
               /\ UNCHANGED closed
  /\ UNCHANGED << registry, clients_lock, mainpc, accepted, disconnected, alive,
                  inbox, refused, msg, lines, added, removed >>

\* The first read raises (the peer has reset the connection): username is
\* still None in the finally block, which closes the socket.
RecvNameError(c) ==
  /\ At(c, "recv_name")
  /\ Cardinality(Gone \cup {c}) <= MaxGone
  /\ alive' = [alive EXCEPT ![c] = FALSE]
  /\ Goto(c, "done")
  /\ Close({c})
  /\ UNCHANGED << registry, clients_lock, mainpc, accepted, username,
                  disconnected, inbox, refused, msg, lines, added, removed >>

\* A membership test that never finds the handle (to try C1 and C4 against).
TakenNever(name) == FALSE

\* add_client, line 63: username in self.clients
Taken(name) == Has(clients, name)

\* An add_client that does not track the peak (to try C22 against).
add_clientNoPeak(c) ==
  /\ At(c, "add_client")
  /\ CanAcquire(c)
  /\ Release(c)
  /\ IF Taken(args[c].username)
     THEN /\ UNCHANGED registry
          /\ added' = [added EXCEPT ![c] = "False"]
          /\ pc' = [pc EXCEPT ![c] = "dup"]
     ELSE /\ clients' = Put(clients, args[c].username, args[c].sock)
          /\ active_connections' = active_connections + 1
          /\ connection_count' = connection_count + 1
          /\ max_concurrent' = max_concurrent
          /\ added' = [added EXCEPT ![c] = "True"]
          /\ pc' = [pc EXCEPT ![c] = "welcome"]
  /\ ret' = [ret EXCEPT ![c] = Tail(@)]
  /\ args' = [args EXCEPT ![c] = NoArgs]
  /\ UNCHANGED << mainpc, accepted, username, disconnected, closed, alive,
                  inbox, refused, msg, lines, removed >>

\* add_client, lines 62-75, under the lock: False for a username that is
\* in the dict; else the entry and the three counters, and True. The
\* caller (lines 185-190) goes on at "dup" after False, "welcome" after True.
add_client(c) ==
  /\ At(c, "add_client")
  /\ CanAcquire(c)
  /\ Release(c)
  /\ IF Taken(args[c].username)
     THEN /\ UNCHANGED registry
          /\ added' = [added EXCEPT ![c] = "False"]
          /\ pc' = [pc EXCEPT ![c] = "dup"]
     ELSE /\ clients' = Put(clients, args[c].username, args[c].sock)
          /\ active_connections' = active_connections + 1
          /\ connection_count' = connection_count + 1
          /\ max_concurrent' = IF active_connections + 1 > max_concurrent
                                THEN active_connections + 1
                                ELSE max_concurrent
          /\ added' = [added EXCEPT ![c] = "True"]
          /\ pc' = [pc EXCEPT ![c] = "welcome"]
  /\ ret' = [ret EXCEPT ![c] = Tail(@)]
  /\ args' = [args EXCEPT ![c] = NoArgs]
  /\ UNCHANGED << mainpc, accepted, username, disconnected, closed, alive,
                  inbox, refused, msg, lines, removed >>

\* Lines 186-190, after add_client returned False: the error is sent and
\* the socket closed (a send that raises skips the close); either way the
\* finally block runs with username set.
DuplicateRejected(c) ==
  /\ At(c, "dup")
  /\ Peers({c})
  /\ Writes(<< W(c, TakenMsg) >>)
  /\ Close(IF SendOk(c) THEN {c} ELSE {})
  /\ Finally(c, username[c])
  /\ UNCHANGED << registry, clients_lock, mainpc, accepted, username,
                  disconnected, msg, lines, added, removed >>

\* Steps 3-4 (lines 193-197): the welcome line, then the call of broadcast
\* with the join notice. A send that raises leads to the finally block.
Welcome(c) ==
  /\ At(c, "welcome")
  /\ Peers({c})
  /\ Writes(<< W(c, WelcomeMsg(username[c])) >>)
  /\ IF SendOk(c)
     THEN Call(c, [fn |-> "broadcast", message |-> JoinedMsg(username[c]),
                   sender |-> username[c]], "commands")
     ELSE Finally(c, username[c])
  /\ UNCHANGED << registry, clients_lock, mainpc, accepted, username,
                  disconnected, closed, msg, lines, added, removed >>

\* Step 5 (lines 200-208): the command summary, then the message loop.
Commands(c) ==
  /\ At(c, "commands")
  /\ Peers({c})
  /\ Writes(<< W(c, CommandsMsg) >>)
  /\ IF SendOk(c) THEN Goto(c, "loop") ELSE Finally(c, username[c])
  /\ UNCHANGED << registry, clients_lock, mainpc, accepted, username,
                  disconnected, closed, msg, lines, added, removed >>

\* self.clients[username].send(text) outside the lock (lines 266, 272, 284):
\* the write attempted, none when the lookup raises KeyError.
ReplyWrites(name, text) ==
  IF Has(clients, name) THEN << W(Get(clients, name), text) >> ELSE <<>>

\* Whether that statement completes: neither the lookup nor the send raises.
ReplyOk(name, text) == Has(clients, name) /\ SendOk(Get(clients, name))

\* A reply of route_message to the sender alone, outside the lock; an
\* exception leaves the message loop (lines 236-238) for the finally block.
Reply(c, text) ==
  /\ Peers(IF Has(clients, username[c]) THEN {Get(clients, username[c])} ELSE {})
  /\ Writes(ReplyWrites(username[c], text))
  /\ IF ReplyOk(username[c], text) THEN Goto(c, "loop") ELSE Finally(c, username[c])

\* route_message, line 259: message.startswith("/private")
IsPrivateCommand(message) == StartsWith(message, << "/private" >>)

\* route_message (lines 254-290) up to its first blocking point.
route_message(c, message) ==
  IF IsPrivateCommand(message)
  THEN LET parts == Split(message, " ", 2) IN
       IF Len(parts) >= 3
       THEN /\ Call(c, [fn |-> "private_message", target_user |-> parts[2],
                        message |-> parts[3], sender |-> username[c]], "loop")
            /\ NoWrites
            /\ UNCHANGED alive
       ELSE Reply(c, UsageMsg)
  ELSE IF message = << "/users" >>
  THEN /\ Call(c, [fn |-> "get_online_users"], "loop")
       /\ NoWrites
       /\ UNCHANGED alive
  ELSE IF message = << "/help" >>
  THEN Reply(c, CommandsMsg)
  ELSE /\ Call(c, [fn |-> "broadcast", message |-> GroupMsg(username[c], message),
                   sender |-> username[c]], "loop")
       /\ NoWrites
       /\ UNCHANGED alive

\* Lines 214-222: a read of the message loop returns data. A line that is
\* empty once stripped ends the loop; any other is routed.
RecvLine(c) ==
  /\ At(c, "loop")
  /\ ~closed[c]
  /\ lines < MaxLines
  /\ lines' = lines + 1
  /\ \E raw \in RawLines :
       LET m == Strip(raw) IN
       /\ msg' = [msg EXCEPT ![c] = m]
       /\ IF m = <<>>
          THEN /\ Finally(c, username[c])
               /\ NoWrites
               /\ UNCHANGED alive
          ELSE route_message(c, m)
  /\ UNCHANGED << registry, clients_lock, mainpc, accepted, username,
                  disconnected, closed, added, removed >>

\* Lines 215-219 and 232-238: the read returns nothing (the peer closed) or
\* raises (reset by the peer, or the socket was closed by another thread):
\* break, and the finally block.
RecvDisconnect(c) ==
  /\ At(c, "loop")
  /\ closed[c] \/ Cardinality(Gone \cup {c}) <= MaxGone
  /\ alive' = [alive EXCEPT ![c] = @ /\ closed[c]]
  /\ Finally(c, username[c])
  /\ UNCHANGED << registry, clients_lock, mainpc, accepted, username,
                  disconnected, closed, inbox, refused, msg, lines, added, removed >>

\* Lines 224-230: the read times out and the probe b'' is sent; the loop
\* goes on unless the probe raises.
RecvTimeout(c) ==
  /\ At(c, "loop")
  /\ ~closed[c]
  /\ Peers({c})
  /\ Writes(<< W(c, PingMsg) >>)
  /\ IF SendOk(c) THEN Goto(c, "loop") ELSE Finally(c, username[c])
  /\ UNCHANGED << registry, clients_lock, mainpc, accepted, username,
                  disconnected, closed, msg, lines, added, removed >>

\* ------------------------------------------------------------- broadcast

\* A broadcast that leaves out nobody (to try C6 against).
RecipientsAll(d, sender) == d

\* Line 122: the entries broadcast writes to, in the dict's order.
Recipients(d, sender) == SelectSeq(d, LAMBDA e : e.name # sender)

\* Lines 121-127: one send to each entry other than the sender.
BroadcastWrites(d, message, sender) ==
  LET to == Recipients(d, sender) IN
  [i \in 1..Len(to) |-> W(to[i].sock, message)]

\* Lines 125-127: the usernames whose send raised, in the dict's order.
Failed(d, sender) ==
  Keys(SelectSeq(Recipients(d, sender), LAMBDA e : ~SendOk(e.sock)))

\* broadcast, lines 118-131, under the lock: the sends; then, for the first
\* username collected, remove_client(username, notify=False) while the lock
\* is still held ("bcast_cleanup" is where that call would come back, for
\* the next username). With nothing collected the lock is released and
\* broadcast returns.
broadcast(c) ==
  /\ At(c, "broadcast")
  /\ CanAcquire(c)
  /\ Peers(Socks(Recipients(clients, args[c].sender)))
  /\ Writes(BroadcastWrites(clients, args[c].message, args[c].sender))
  /\ LET failed == Failed(clients, args[c].sender) IN
     IF failed = <<>>
     THEN /\ Release(c)
          /\ Return(c)
          /\ UNCHANGED disconnected
     ELSE /\ Hold(c)
          /\ Call(c, [fn |-> "remove_client", username |-> Head(failed),
                      notify |-> FALSE], "bcast_cleanup")
          /\ disconnected' = [disconnected EXCEPT ![c] = Tail(failed)]
  /\ UNCHANGED << registry, mainpc, accepted, username, closed, msg, lines, added, removed >>

\* ------------------------------------------------------- private_message

\* A send repeated (to try C8 against).
TryWritesTwice(name, text) ==
  IF Has(clients, name)
  THEN << W(Get(clients, name), text), W(Get(clients, name), text) >>
  ELSE <<>>

\* self.clients[name].send(text) inside a try block: the write attempted,
\* none when the lookup raises KeyError.
TryWrites(name, text) ==
  IF Has(clients, name) THEN << W(Get(clients, name), text) >> ELSE <<>>

\* A private_message that confirms nothing to the sender (to try C7 against).
PrivateWritesNoConfirm(target_user, message, sender) ==
  IF Has(clients, target_user)
  THEN << W(Get(clients, target_user), PrivateMsg(sender, message)) >>
  ELSE <<>>

\* The writes of private_message (lines 140-165): to the target and, once
\* that send has returned, the confirmation to the sender; the first of the
\* two that raises is followed by the delivery error to the sender. For a
\* target that is not in the dict, the error to the sender alone.
PrivateWrites(target_user, message, sender) ==
  IF Has(clients, target_user)
  THEN LET w1 == W(Get(clients, target_user), PrivateMsg(sender, message))
           w2 == TryWrites(sender, SentMsg(target_user))
           err == TryWrites(sender, NotDeliveredMsg(target_user))
       IN IF ~w1.ok THEN << w1 >> \o err
          ELSE IF w2 # <<>> /\ w2[1].ok THEN << w1 >> \o w2
          ELSE << w1 >> \o w2 \o err
  ELSE TryWrites(sender, NotOnlineMsg(target_user))

\* A private_message that drops the target's entry (to try C24 against).
private_messageForgets(c) ==
  /\ At(c, "private_message")
  /\ CanAcquire(c)
  /\ Peers(Socks(SelectSeq(clients, LAMBDA e : e.name \in {args[c].target_user, args[c].sender})))
  /\ Writes(PrivateWrites(args[c].target_user, args[c].message, args[c].sender))
  /\ Release(c)
  /\ Return(c)
  /\ clients' = Del(clients, args[c].target_user)
  /\ UNCHANGED << active_connections, connection_count, max_concurrent, mainpc,
                  accepted, username, disconnected, closed, msg, lines, added,
                  removed >>

\* private_message, lines 138-165, under the lock.
private_message(c) ==
  /\ At(c, "private_message")
  /\ CanAcquire(c)
  /\ Peers(Socks(SelectSeq(clients, LAMBDA e : e.name \in {args[c].target_user, args[c].sender})))
  /\ Writes(PrivateWrites(args[c].target_user, args[c].message, args[c].sender))
  /\ Release(c)
  /\ Return(c)
  /\ UNCHANGED << registry, mainpc, accepted, username, disconnected, closed, msg, lines, added, removed >>

\* ------------------------------------------------------ get_online_users

\* get_online_users returns list(self.clients.keys()) and releases the
\* lock (lines 108-109); route_message then sends the reply (lines 271-272).
get_online_users(c) ==
  /\ At(c, "get_online_users")
  /\ CanAcquire(c)
  /\ Peers(IF Has(clients, username[c]) THEN {Get(clients, username[c])} ELSE {})
  /\ Release(c)
  /\ LET text == UsersMsg(Keys(clients)) IN
     /\ Writes(ReplyWrites(username[c], text))
     /\ IF ReplyOk(username[c], text)
        THEN Return(c)
        ELSE /\ pc' = [pc EXCEPT ![c] = "remove_client"]
             /\ args' = [args EXCEPT ![c] = [fn |-> "remove_client",
                            username |-> username[c], notify |-> TRUE]]
             /\ ret' = [ret EXCEPT ![c] = << "done" >>]
  /\ UNCHANGED << registry, mainpc, accepted, username, disconnected, closed, msg, lines, added, removed >>

\* --------------------------------------------------------- remove_client

\* A removal that leaves the count alone (to try C2 against).
DecrementNot(n) == n

\* remove_client, line 98: self.active_connections -= 1
Decrement(n) == n - 1

\* remove_client, lines 82-104, under the lock. For a username in the dict:
\* the notice to its socket (notify only; a failure is swallowed), close,
\* del, the decrement, and with notify the call of broadcast (line 104)
\* while the lock is still held; "rm_exit", the end of the with block, is
\* where that call would come back. For any other username, and without
\* notify, the lock is released and remove_client returns.
remove_client(c) ==
  /\ At(c, "remove_client")
  /\ CanAcquire(c)
  /\ Peers(IF Has(clients, args[c].username) /\ args[c].notify
           THEN {Get(clients, args[c].username)} ELSE {})
  /\ LET name == args[c].username
         notify == args[c].notify
     IN IF Has(clients, name)
        THEN /\ Writes(IF notify
                       THEN << W(Get(clients, name), ConnectionClosedMsg) >>
                       ELSE <<>>)
             /\ Close({Get(clients, name)})
             /\ clients' = Del(clients, name)
             /\ removed' = [removed EXCEPT ![Get(clients, name)] = TRUE]
             /\ active_connections' = Decrement(active_connections)
             /\ IF notify
                THEN /\ Call(c, [fn |-> "broadcast", message |-> LeftMsg(name),
                                 sender |-> name], "rm_exit")
                     /\ Hold(c)
                ELSE /\ Release(c)
                     /\ Return(c)
        ELSE /\ Release(c)
             /\ Return(c)
             /\ NoWrites
             /\ UNCHANGED << clients, active_connections, closed, removed >>
  /\ UNCHANGED << connection_count, max_concurrent, mainpc, accepted, username,
                  disconnected, msg, lines, added >>

\* ---------------------------------------------------------- specification

Next ==
  \/ \E c \in Conns : AcceptFull(c)
  \/ \E c \in Conns : AcceptSpawn(c)
  \/ Interrupt
  \/ shutdown
  \/ \E c \in Conns : RecvName(c)
  \/ \E c \in Conns : RecvNameError(c)
  \/ \E c \in Conns : add_client(c)
  \/ \E c \in Conns : DuplicateRejected(c)
  \/ \E c \in Conns : Welcome(c)
  \/ \E c \in Conns : Commands(c)
  \/ \E c \in Conns : RecvLine(c)
  \/ \E c \in Conns : RecvDisconnect(c)
  \/ \E c \in Conns : RecvTimeout(c)
  \/ \E c \in Conns : broadcast(c)
  \/ \E c \in Conns : private_message(c)
  \/ \E c \in Conns : get_online_users(c)
  \/ \E c \in Conns : remove_client(c)

Spec == Init /\ [][Next]_vars

\* The steps of the server's own threads; what a peer sends, when it goes
\* away and when the operator interrupts the server are not the server's
\* to decide.
ServerStep(c) ==
  \/ add_client(c)
  \/ DuplicateRejected(c)
  \/ Welcome(c)
  \/ Commands(c)
  \/ broadcast(c)
  \/ private_message(c)
  \/ get_online_users(c)
  \/ remove_client(c)

\* The scheduler runs every thread that can run.
FairSpec == Spec /\ \A c \in Conns : WF_vars(ServerStep(c))

\* ----------------------------------------------------------------- claims

\* Session c is in the registry, under its username and with its socket.
Registered(c) == Has(clients, username[c]) /\ Get(clients, username[c]) = c

\* The socket s takes writes.
Working(s) == alive[s] /\ ~closed[s]

\* Every text a write to s was attempted with, delivered or not.
Attempts(s) == inbox[s] (+) refused[s]

One(text) == SetToBag({text})

\* Thread c takes a step from p.
StepFrom(c, p) == pc[c] = p /\ pc'[c] # p

\* C1: a handle is in the registry at most once, and of two sessions that
\* asked for the same handle and both got True from add_client, one has had
\* its entry removed: while neither is removed, only one call returns True.
C1_OneOwnerPerHandle ==
  /\ \A i, j \in 1..Len(clients) : clients[i].name = clients[j].name => i = j
  /\ \A c, d \in Conns :
       ( c # d /\ username[c] = username[d]
         /\ added[c] = "True" /\ added[d] = "True" )
       => removed[c] \/ removed[d]

\* Two sessions have asked for one handle; one got True, the other False.
C1_Witness ==
  \E c, d \in Conns :
    /\ c # d /\ username[c] = username[d]
    /\ added[c] = "True" /\ added[d] = "False"
    /\ ~removed[c]

\* C2: in every state of the model (the lock free, or held by a thread that
\* is blocked inside its critical section), active_connections is the
\* number of entries of clients, and it is not negative.
C2_ActiveIsSize ==
  /\ active_connections = Len(clients)
  /\ active_connections >= 0

\* Entries have been added and one has been removed, after an add_client
\* that returned False.
C2_Witness ==
  /\ \E c \in Conns : removed[c]
  /\ \E c \in Conns : added[c] = "False"
  /\ Len(clients) >= 1

\* C3: once add_client has returned False to session c, no step of c's
\* handle_client (its finally block included) changes the registry or its
\* counters, closes another session's socket or writes to one.
C3_DuplicateTouchesOnlyItself ==
  [][ \A c \in Conns :
        ( added[c] = "False" /\ pc'[c] # pc[c] )
        => /\ UNCHANGED registry
           /\ \A a \in Conns \ {c} :
                /\ closed'[a] = closed[a]
                /\ Attempts(a)' = Attempts(a) ]_vars

\* C4: add_client for a handle that is in the registry returns False and
\* changes neither the dict (so not the socket of that handle) nor any of
\* the three counters.
C4_TakenHandleNoEffect ==
  [][ \A c \in Conns :
        ( StepFrom(c, "add_client") /\ Has(clients, args[c].username) )
        => /\ added'[c] = "False"
           /\ UNCHANGED registry ]_vars

\* add_client has returned False to a session whose handle another session
\* holds.
C4_Witness ==
  \E c, d \in Conns :
    /\ c # d /\ added[c] = "False" /\ pc[c] = "dup"
    /\ Registered(d) /\ username[d] = username[c]

\* A's peer has gone, and A's thread has left its message loop (which it
\* had entered: the command summary is in A's inbox) for the finally block,
\* while A is registered.
Disconnects(a) ==
  /\ Registered(a)
  /\ ~alive[a]
  /\ BagIn(CommandsMsg, inbox[a])
  /\ pc[a] = "remove_client"
  /\ args[a] = [fn |-> "remove_client", username |-> username[a], notify |-> TRUE]

\* C5: when the registered A disconnects while B is registered with a
\* working connection, then eventually A is not in the registry and B has
\* received '[SERVER] A left the chat' exactly once (unless the server has
\* closed B's connection or has stopped in the meantime). Stated for A the
\* first connection and B the second, and for the case that is kindest to
\* the server: B's session idle in its message loop, and the lock free
\* when A's thread reaches remove_client.
C5_LeftNoticeOnce ==
  ( /\ Running /\ clients_lock = NoThread
    /\ Disconnects(1)
    /\ Registered(2) /\ Working(2) /\ pc[2] = "loop" )
  ~> \/ /\ ~Has(clients, username[1])
        /\ CopiesIn(LeftMsg(username[1]), inbox[2]) = 1
     \/ closed[2]
     \/ ~Running

\* Thread c is about to run broadcast for a group message it routed.
GroupBroadcast(c) ==
  /\ pc[c] = "broadcast"
  /\ Head(ret[c]) = "loop"
  /\ Registered(c)

\* C6: the broadcast of a group message routed from the registered S
\* attempts exactly one write of 'S: <message>' to every handle that is in
\* the registry other than S and none to anybody else; S is written
\* nothing and receives nothing, whether or not the writes to others fail.
C6_GroupToAllButSender ==
  [][ \A c \in Conns :
        ( GroupBroadcast(c) /\ pc'[c] # "broadcast" )
        => LET text == username[c] \o << ": " >> \o msg[c]
               others == { clients[i].sock :
                             i \in { j \in 1..Len(clients) :
                                       clients[j].name # username[c] } }
           IN /\ \A r \in others : Attempts(r)' = Attempts(r) (+) One(text)
              /\ \A r \in Conns \ others : Attempts(r)' = Attempts(r)
              /\ c \notin others
              /\ inbox'[c] = inbox[c] ]_vars

\* A group message of S has reached another session, and S's inbox holds
\* no copy of it.
C6_Witness ==
  \E c, r \in Conns :
    /\ c # r /\ msg[c] = << "hi" >> /\ Registered(c) /\ Registered(r)
    /\ BagIn(username[c] \o << ": ", "hi" >>, inbox[r])
    /\ ~BagIn(username[c] \o << ": ", "hi" >>, inbox[c])

\* Thread a is about to run private_message for the target handle t.
PrivateTo(a, t) ==
  /\ pc[a] = "private_message"
  /\ args[a].target_user = t
  /\ args[a].sender = username[a]
  /\ Registered(a)

\* C7: when the registered A routes '/private B m' and B is registered
\* with a working connection (as is A), private_message writes
\* '[PRIVATE] A: m' to B and then '[SENT] Private message to B' to A, both
\* are received, and nothing is written to any other session.
C7_PrivateDelivered ==
  [][ \A a, b \in Conns :
        ( /\ a # b
          /\ Registered(b) /\ PrivateTo(a, username[b])
          /\ pc'[a] # "private_message"
          /\ alive'[a] /\ ~closed[a] /\ alive'[b] /\ ~closed[b] )
        => LET private == << "[PRIVATE] " >> \o username[a] \o << ": " >>
                            \o args[a].message
               sent == << "[SENT] Private message to " >> \o username[b]
           IN /\ PrivateWrites(username[b], args[a].message, username[a])
                   = << [to |-> b, text |-> private, ok |-> TRUE],
                        [to |-> a, text |-> sent, ok |-> TRUE] >>
              /\ inbox'[b] = inbox[b] (+) One(private)
              /\ inbox'[a] = inbox[a] (+) One(sent)
              /\ \A r \in Conns \ {a, b} : Attempts(r)' = Attempts(r)
              /\ refused' = refused ]_vars

\* '/private B m n' of A has been delivered to B as '[PRIVATE] A: m n' and
\* confirmed to A.
C7_Witness ==
  \E a, b \in Conns :
    /\ a # b /\ Registered(a) /\ Registered(b)
    /\ msg[a] = << "/private", " " >> \o username[b] \o << " ", "m", " ", "n" >>
    /\ BagIn(<< "[PRIVATE] " >> \o username[a] \o << ": ", "m", " ", "n" >>, inbox[b])
    /\ BagIn(<< "[SENT] Private message to " >> \o username[b], inbox[a])

\* C8: when a registered sender routes a /private message whose target is
\* not in the registry, private_message attempts exactly one write, of
\* "[ERROR] User '<target>' is not online" to the sender (who receives it
\* if its connection works), writes to nobody else, and leaves the
\* registry and the counters as they are.
C8_AbsentTarget ==
  [][ \A a \in Conns :
        ( /\ PrivateTo(a, args[a].target_user)
          /\ ~Has(clients, args[a].target_user)
          /\ pc'[a] # "private_message" )
        => LET text == << "[ERROR] User '" >> \o args[a].target_user
                         \o << "' is not online" >>
           IN /\ Attempts(a)' = Attempts(a) (+) One(text)
              /\ (alive'[a] /\ ~closed[a]) => inbox'[a] = inbox[a] (+) One(text)
              /\ \A r \in Conns \ {a} : Attempts(r)' = Attempts(r)
              /\ UNCHANGED registry ]_vars

\* A sender has its one error reply for the target G, which no session
\* registers.
C8_Witness ==
  \E a \in Conns :
    /\ Registered(a) /\ ~Has(clients, << "G" >>)
    /\ msg[a] = << "/private", " ", "G", " ", "m" >>
    /\ CopiesIn(<< "[ERROR] User '", "G", "' is not online" >>, inbox[a]) = 1

\* C9: when the accept loop accepts connection c while active_connections
\* is MAX_CLIENTS or more, it sends c the "server is full" error, closes
\* c, starts no session thread for it and reads no handle from it, and
\* the registry and its three counters are unchanged.
C9_FullRejected ==
  [][ \A c \in Conns :
        ( accepted = c - 1 /\ accepted' = c /\ active_connections >= MAX_CLIENTS )
        => /\ Attempts(c)'
               = One(<< "[ERROR] Server is full. Please try again later." >>)
           /\ closed'[c]
           /\ pc'[c] = "rejected"
           /\ username'[c] = None
           /\ UNCHANGED registry ]_vars

\* C10: the number of registered sessions, active_connections, never
\* exceeds MAX_CLIENTS.
C10_WithinCapacity == active_connections <= MAX_CLIENTS

\* C11: a call of remove_client for a handle that is no longer in the
\* registry returns, and has changed neither the registry nor
\* active_connections nor written the "left the chat" notice to anyone.
\* Stated for the first connection, whose entry another thread has removed,
\* at its own teardown call.
C11_SecondRemovalReturns ==
  ( /\ Running
    /\ pc[1] = "remove_client"
    /\ args[1] = [fn |-> "remove_client", username |-> username[1], notify |-> TRUE]
    /\ removed[1] /\ ~Has(clients, username[1]) )
  ~> \/ pc[1] = "done"
     \/ ~Running

\* C12: once the entry of a session has been removed from the registry, no
\* step attempts a write on that session's connection.
C12_NoWriteAfterRemoval ==
  [][ \A s \in Conns : removed[s] => Attempts(s)' = Attempts(s) ]_vars

\* C13: with clients_lock free, no connection that the registry maps has
\* been closed by the server.
C13_RegisteredAreOpen ==
  clients_lock = NoThread
    => \A i \in 1..Len(clients) : ~closed[clients[i].sock]

\* C14: a session that reached its message loop and has left it eventually
\* completes its cleanup: its handle is not registered, its connection is
\* closed and its thread has returned. Stated for the first connection,
\* with the lock free when its thread reaches remove_client.
C14_CleanupCompletes ==
  ( /\ Running /\ clients_lock = NoThread
    /\ Registered(1)
    /\ BagIn(CommandsMsg, inbox[1])
    /\ pc[1] = "remove_client" )
  ~> \/ /\ pc[1] = "done"
        /\ ~Registered(1)
        /\ closed[1]
     \/ ~Running

\* C15: a broadcast in which the write to recipient R failed returns, with
\* R no longer in the registry. Stated for a broadcast of the first
\* connection's thread and R the second connection, from the point where
\* the sends are done and the cleanup loop starts.
C15_FailedRecipientRemoved ==
  ( /\ Running
    /\ clients_lock = 1
    /\ pc[1] = "remove_client"
    /\ args[1] = [fn |-> "remove_client", username |-> username[2], notify |-> FALSE]
    /\ Registered(2) )
  ~> \/ /\ ~Registered(2)
        /\ clients_lock # 1
        /\ pc[1] \notin {"remove_client", "bcast_cleanup"}
     \/ ~Running

\* The functions whose steps run inside "with self.clients_lock" from
\* their first statement to their last.
Locked == {"add_client", "remove_client", "broadcast", "private_message"}

\* C16: no write on a client connection is made while clients_lock is
\* held: a step of a session thread inside a with-block of the lock, and
\* the step of shutdown, attempt no write.
C16_NoWriteUnderLock ==
  [][ /\ \A c \in Conns :
           ( pc[c] \in Locked /\ pc'[c] # pc[c] )
           => \A s \in Conns : Attempts(s)' = Attempts(s)
      /\ mainpc' # mainpc /\ mainpc' = "stopped"
           => \A s \in Conns : Attempts(s)' = Attempts(s) ]_vars

\* C17: when the registered A routes '/private B m', B is registered and
\* the write to B fails, private_message writes
\* '[ERROR] Could not deliver message to B' to A (who receives it, its
\* connection working) and no '[SENT] Private message to B'; A's session
\* goes back to its message loop, registered, and B's entry stays.
C17_PrivateFailureReported ==
  [][ \A a, b \in Conns :
        ( /\ a # b
          /\ Registered(b) /\ PrivateTo(a, username[b])
          /\ pc'[a] # "private_message"
          /\ ~(alive'[b] /\ ~closed[b]) )
        => LET private == << "[PRIVATE] " >> \o username[a] \o << ": " >>
                            \o args[a].message
               sent == << "[SENT] Private message to " >> \o username[b]
               err == << "[ERROR] Could not deliver message to " >> \o username[b]
           IN /\ Attempts(a)' = Attempts(a) (+) One(err)
              /\ (alive'[a] /\ ~closed[a]) => inbox'[a] = inbox[a] (+) One(err)
              /\ CopiesIn(sent, Attempts(a)') = CopiesIn(sent, Attempts(a))
              /\ inbox'[b] = inbox[b]
              /\ refused'[b] = refused[b] (+) One(private)
              /\ \A r \in Conns \ {a, b} : Attempts(r)' = Attempts(r)
              /\ UNCHANGED registry
              /\ pc'[a] = "loop"
              /\ Registered(a)' /\ Registered(b)' ]_vars

\* A's private message to B, whose peer has gone, was refused, and A has
\* the delivery error and is back in its message loop.
C17_Witness ==
  \E a, b \in Conns :
    /\ a # b /\ Registered(a) /\ Registered(b) /\ ~alive[b]
    /\ pc[a] = "loop"
    /\ BagIn(<< "[PRIVATE] " >> \o username[a] \o << ": ", "m", " ", "n" >>, refused[b])
    /\ BagIn(<< "[ERROR] Could not deliver message to " >> \o username[b], inbox[a])
    /\ ~BagIn(<< "[SENT] Private message to " >> \o username[b], inbox[a])

\* C18: route_message dispatches every line it is given by these rules: a
\* line that begins with '/private ' is a direct message (the usage error
\* to the sender alone when fewer than two arguments follow); '/users' and
\* '/help' are answered to the sender alone; every other line, one that
\* only starts with the characters '/private' included, is broadcast as
\* the group message '<sender>: <line>'.
C18_Dispatch ==
  [][ \A c \in Conns :
        ( pc[c] = "loop" /\ msg'[c] # msg[c] /\ msg'[c] # <<>> )
        => LET m == msg'[c]
               H == username[c]
           IN IF StartsWith(m, << "/private", " " >>)
              THEN IF Len(Split(m, " ", 2)) >= 3
                   THEN /\ pc'[c] = "private_message"
                        /\ \A r \in Conns : Attempts(r)' = Attempts(r)
                   ELSE /\ Attempts(c)' = Attempts(c)
                             (+) One(<< "[ERROR] Usage: /private <username> <message>" >>)
                        /\ \A r \in Conns \ {c} : Attempts(r)' = Attempts(r)
              ELSE IF m \in { << "/users" >>, << "/help" >> }
              THEN /\ pc'[c] \in {"get_online_users", "loop", "remove_client"}
                   /\ \A r \in Conns \ {c} : Attempts(r)' = Attempts(r)
              ELSE /\ pc'[c] = "broadcast"
                   /\ args'[c].message = H \o << ": " >> \o m
                   /\ args'[c].sender = H ]_vars

\* C19: after add_client has returned True for the handle H, the session
\* sends the welcome line to H, then runs the broadcast that writes
\* '[SERVER] H joined the chat' once to every other registered handle and
\* not to H, then sends the command summary to H, and reads lines only
\* after that (a send that fails ends the session instead).
C19_HandshakeOrder ==
  [][ \A c \in Conns :
        LET H == username[c]
            welcome == << "[SERVER] Welcome " >> \o H \o << "! You are connected." >>
            joined == << "[SERVER] " >> \o H \o << " joined the chat" >>
            commands == << "--- Available Commands ---" >>
            others == { clients[i].sock :
                          i \in { j \in 1..Len(clients) : clients[j].name # H } }
        IN /\ ( pc'[c] = "welcome" /\ pc[c] # "welcome" )
                => /\ pc[c] = "add_client"
                   /\ added'[c] = "True"
                   /\ Registered(c)'
           /\ StepFrom(c, "welcome")
                => /\ Attempts(c)' = Attempts(c) (+) One(welcome)
                   /\ \A r \in Conns \ {c} : Attempts(r)' = Attempts(r)
                   /\ IF alive'[c] /\ ~closed[c]
                      THEN /\ pc'[c] = "broadcast"
                           /\ Head(ret'[c]) = "commands"
                           /\ args'[c].message = joined
                           /\ args'[c].sender = H
                      ELSE pc'[c] = "remove_client"
           /\ ( pc[c] = "broadcast" /\ Head(ret[c]) = "commands"
                  /\ pc'[c] # "broadcast" )
                => /\ \A r \in others : Attempts(r)' = Attempts(r) (+) One(joined)
                   /\ \A r \in Conns \ others : Attempts(r)' = Attempts(r)
                   /\ c \notin others
                   /\ pc'[c] \in {"commands", "remove_client"}
           /\ ( pc'[c] = "commands" /\ pc[c] # "commands" )
                => pc[c] = "broadcast" /\ Head(ret[c]) = "commands"
           /\ StepFrom(c, "commands")
                => /\ Attempts(c)' = Attempts(c) (+) One(commands)
                   /\ \A r \in Conns \ {c} : Attempts(r)' = Attempts(r)
                   /\ pc'[c] = IF alive'[c] /\ ~closed[c]
                               THEN "loop" ELSE "remove_client"
           /\ msg'[c] # msg[c]
                => /\ pc[c] = "loop"
                   /\ BagIn(welcome, inbox[c])
                   /\ BagIn(commands, inbox[c]) ]_vars

\* A session has read a line; it has its welcome line and the command
\* summary, and another session has its join notice, which it has not.
C19_Witness ==
  \E c, r \in Conns :
    /\ c # r /\ msg[c] # None /\ Registered(c) /\ Registered(r)
    /\ BagIn(<< "[SERVER] Welcome " >> \o username[c] \o << "! You are connected." >>,
             inbox[c])
    /\ BagIn(<< "--- Available Commands ---" >>, inbox[c])
    /\ BagIn(<< "[SERVER] " >> \o username[c] \o << " joined the chat" >>, inbox[r])
    /\ ~BagIn(<< "[SERVER] " >> \o username[c] \o << " joined the chat" >>,
              Attempts(c))

\* A handle that is empty or all whitespace.
Blank(u) == \A i \in 1..Len(u) : u[i] = " "

\* C20: when the first read of a connection yields a handle that is empty
\* once trimmed, the session closes the connection and ends: it calls
\* neither add_client nor remove_client, takes no lock, writes to nobody,
\* leaves the registry and its counters as they are, and takes no step
\* afterwards.
C20_EmptyHandle ==
  [][ \A c \in Conns :
        /\ ( StepFrom(c, "recv_name") /\ Blank(username'[c]) )
             => /\ username'[c] = <<>>
                /\ pc'[c] = "done"
                /\ ret'[c] = <<>>
                /\ closed'[c]
                /\ added'[c] = "none"
                /\ UNCHANGED << registry, clients_lock, inbox, refused >>
                /\ \A r \in Conns \ {c} : closed'[r] = closed[r]
        /\ Blank(username[c])
             => pc'[c] = pc[c] /\ added'[c] = added[c] ]_vars

\* A session has ended on an empty handle while another is registered.
C20_Witness ==
  \E c, r \in Conns :
    /\ username[c] = <<>> /\ pc[c] = "done" /\ closed[c]
    /\ Registered(r)

\* The main thread, once interrupted and waiting in shutdown for the lock
\* (line 364), runs when it can.
FairStopSpec == FairSpec /\ WF_vars(mainpc = "shutdown" /\ shutdown)

\* C21: once the server has been interrupted, shutdown terminates (start
\* returns, the listening socket closed), and then every connection that
\* is registered has been closed by the server.
C21_ShutdownCompletes ==
  ( mainpc # "accept" )
  ~> /\ mainpc = "stopped"
     /\ \A i \in 1..Len(clients) : closed[clients[i].sock]

Max(a, b) == IF a > b THEN a ELSE b

\* C22: connection_count and max_concurrent never decrease;
\* connection_count is the number of add_client calls that returned True;
\* max_concurrent is the largest value active_connections has had (it
\* starts at 0 with it and follows it up at every step); and
\* active_connections <= max_concurrent <= connection_count.
C22_CountersMonotone ==
  [][ /\ connection_count' >= connection_count
      /\ max_concurrent' >= max_concurrent
      /\ connection_count = Cardinality({ c \in Conns : added[c] = "True" })
      /\ connection_count' = Cardinality({ c \in Conns : added'[c] = "True" })
      /\ max_concurrent >= active_connections
      /\ max_concurrent' = Max(max_concurrent, active_connections')
      /\ active_connections' <= max_concurrent'
      /\ max_concurrent' <= connection_count' ]_vars

\* Two sessions have registered and one has been removed: the active count
\* is below the peak.
C22_Witness ==
  /\ connection_count >= 2
  /\ active_connections < max_concurrent
  /\ \E c \in Conns : removed[c]

\* Where a thread is when it asks for clients_lock.
Acquiring ==
  {"add_client", "remove_client", "broadcast", "private_message", "get_online_users"}

\* C23: no thread asks for clients_lock while it holds it.
C23_NoSelfRequest ==
  \A c \in Conns : ~(clients_lock = c /\ pc[c] \in Acquiring)

\* C24: only add_client and remove_client change the registry and its
\* counters: no step of private_message or get_online_users, and no step
\* that reads and routes a line ('/private', '/users', '/help' or any
\* other), changes clients, active_connections, connection_count or
\* max_concurrent.
C24_RoutingFrame ==
  [][ /\ \A c \in Conns :
           ( \/ StepFrom(c, "private_message")
             \/ StepFrom(c, "get_online_users")
             \/ msg'[c] # msg[c] )
           => UNCHANGED registry
      /\ registry' # registry
           => \E c \in Conns : \/ StepFrom(c, "add_client")
                                \/ StepFrom(c, "remove_client") ]_vars

\* A session has routed a '/private' line for a target that is registered
\* and is back in its message loop with the confirmation or the delivery
\* error, and both are still registered.
C24_Witness ==
  \E a \in Conns :
    /\ Registered(a) /\ pc[a] = "loop"
    /\ StartsWith(msg[a], << "/private", " " >>)
    /\ \E t \in DOMAIN inbox[a] :
         t[1] \in {"[SENT] Private message to ",
                   "[ERROR] Could not deliver message to "}
    /\ Len(clients) >= 2

\* A text that sessions' traffic produces: a join or left notice, a
\* private message or a group message ('<handle>: <line>').
Chat(text) ==
  \/ text[1] = "[PRIVATE] "
  \/ text[1] = "[SERVER] " /\ text[Len(text)] \in {" joined the chat", " left the chat"}
  \/ Len(text) >= 2 /\ text[2] = ": "

\* C25: between the add_client that returned True for H and the send of
\* H's welcome line, no join or left notice, group message or private
\* message has been written to H's connection.
C25_WelcomeFirst ==
  \A c \in Conns :
    pc[c] = "welcome"
      => \A text \in DOMAIN Attempts(c) : ~Chat(text)

====
